---- MODULE Spec2Model ----
(***************************************************************************)
(* Model of the Protocol Coverage Fund simulator (src/src/App.jsx):        *)
(* buildModel, the day-by-day loop that emits one point per day, and       *)
(* monthlyData, the fold of the daily points into 30-day buckets.          *)
(*                                                                         *)
(* Days and amounts are whole numbers (the amount fields accept digits     *)
(* only), which a JavaScript Number holds exactly.  The premium cost is a  *)
(* whole percentage.  premiumCost and coverage are quotients of Numbers    *)
(* and are modelled as IEEE-754 double-precision values: a Double is the   *)
(* record [hi, lo, exp] that stands for (hi * 2^26 + lo) * 2^exp, with     *)
(* 2^52 <= hi * 2^26 + lo < 2^53, or DoubleZero.                           *)
(***************************************************************************)
EXTENDS Integers, Sequences, FiniteSets

VARIABLES
    config,             \* the six arguments of buildModel
    pc,                 \* position: "start", "loop", "built", "fold", "done"
    purchaseDays,       \* buildModel: purchaseDays
    nextPurchaseDay,    \* buildModel: loop variable of the purchase-day loop
    premiumCost,        \* buildModel: premiumCost (a Double)
    day,                \* buildModel: loop variable of the day loop
    cumulativePremiums, \* buildModel: cumulativePremiums
    rollingPremiums,    \* buildModel: rollingPremiums
    activePurchases,    \* buildModel: activePurchases (FIFO, oldest first)
    data,               \* buildModel: data (the emitted points)
    months,             \* monthlyData: months
    idx                 \* monthlyData: position of data.forEach (1-based)

vars == <<config, pc, purchaseDays, nextPurchaseDay, premiumCost, day,
          cumulativePremiums, rollingPremiums, activePurchases, data, months, idx>>

----------------------------------------------------------------------------
(* Ranges of the inputs.                                                   *)

\* Smallest timescale the controls let through (clamp(value, 12, 60)).
MinMonths == 12

\* Largest timescale explored.
MaxMonths == 12

\* Days per month, as used in totalDays and in the monthly bucket index.
DaysPerMonth == 30

TimescaleValues == MinMonths..MaxMonths
PremiumValues == {50000}
CadenceValues == {1, 7, 30, 361}
DurationValues == {1, 30, 90, 360, 361}
BootstrapValues == {0, 200000}
PremiumCostPctValues == {8, 30}

Configs ==
    [timescaleMonths : TimescaleValues,
     premiumValue : PremiumValues,
     purchaseCadenceDays : CadenceValues,
     policyDurationDays : DurationValues,
     bootstrapFunding : BootstrapValues,
     premiumCostPct : PremiumCostPctValues]

----------------------------------------------------------------------------
(* formatMonthLabel                                                        *)

startYear == 2026
startMonth == 4

\* The label `${yy}-${month}` as the pair <<yy, month>>; yy is the last two
\* digits of the (four-digit) year.
formatMonthLabel(monthIndex) ==
    LET absoluteMonth == startMonth - 1 + monthIndex
        year == startYear + (absoluteMonth \div 12)
        month == (absoluteMonth % 12) + 1
    IN <<year % 100, month>>

----------------------------------------------------------------------------
(* JavaScript Number arithmetic (IEEE-754 double precision, round to       *)
(* nearest, ties to even) on non-negative values                           *)

\* The 53-bit significand is held as hi * Base + lo.
Base == 2^26

\* Limb size used by the multiplication.
Limb == 2^13

DoubleZero == [hi |-> 0, lo |-> 0, exp |-> 0]

\* Shift the significand left until it has 53 bits (eight places at a time
\* while that many are missing).
RECURSIVE NormaliseUp(_, _, _)
NormaliseUp(hi, lo, exp) ==
    IF hi >= Base
    THEN [hi |-> hi, lo |-> lo, exp |-> exp]
    ELSE IF hi < Base \div 256
    THEN NormaliseUp(256 * hi + (lo \div (Base \div 256)),
                     (lo % (Base \div 256)) * 256, exp - 8)
    ELSE NormaliseUp(2 * hi + ((2 * lo) \div Base), (2 * lo) % Base, exp - 1)

\* The Number that holds the whole number n, 0 <= n < 2^31.
FromInt(n) ==
    IF n = 0 THEN DoubleZero
    ELSE IF n < Base THEN NormaliseUp(n, 0, -26)
    ELSE NormaliseUp(n \div Base, n % Base, 0)

\* Round a 53-bit significand to nearest, ties to even, given the first
\* discarded bit (guard) and whether any later discarded bit is set (sticky).
RoundEven(hi, lo, exp, guard, sticky) ==
    IF guard /\ (sticky \/ lo % 2 = 1)
    THEN IF lo + 1 < Base THEN [hi |-> hi, lo |-> lo + 1, exp |-> exp]
         ELSE IF hi + 1 < 2 * Base THEN [hi |-> hi + 1, lo |-> 0, exp |-> exp]
         ELSE [hi |-> Base, lo |-> 0, exp |-> exp + 1]
    ELSE [hi |-> hi, lo |-> lo, exp |-> exp]

\* Whether the running remainder st.r of a long division reaches the divisor d.
DivGe(st, d) == st.rhi > d.hi \/ (st.rhi = d.hi /\ st.rlo >= d.lo)

\* One step of long division by d: the next quotient bit is appended to q,
\* the divisor is taken off the remainder r if it fits, and r is doubled.
DivStep(st, d) ==
    LET ge == DivGe(st, d)
        shi == IF ~ge THEN st.rhi
               ELSE IF st.rlo >= d.lo THEN st.rhi - d.hi ELSE st.rhi - d.hi - 1
        slo == IF ~ge THEN st.rlo
               ELSE IF st.rlo >= d.lo THEN st.rlo - d.lo ELSE st.rlo + Base - d.lo
        q2 == 2 * st.qlo + (IF ge THEN 1 ELSE 0)
    IN [rhi |-> 2 * shi + ((2 * slo) \div Base), rlo |-> (2 * slo) % Base,
        qhi |-> 2 * st.qhi + (q2 \div Base), qlo |-> q2 % Base]

\* n steps of long division.
RECURSIVE DivSteps(_, _, _)
\* (The test on next only fixes the order of evaluation.)
DivSteps(st, d, n) ==
    IF n = 0 THEN st
    ELSE LET next == DivStep(st, d)
         IN IF next.qlo >= 0 THEN DivSteps(next, d, n - 1) ELSE next

\* The 53 leading quotient bits of r / d (d <= r < 2d), with the next bit
\* (guard) and whether the division leaves a remainder after it (sticky).
DivBits(r, d) ==
    LET s0 == [rhi |-> r.hi, rlo |-> r.lo, qhi |-> 0, qlo |-> 0]
        s1 == DivSteps(s0, d, 9)
        s2 == DivSteps(s1, d, 9)
        s3 == DivSteps(s2, d, 9)
        s4 == DivSteps(s3, d, 9)
        s5 == DivSteps(s4, d, 9)
        s6 == DivSteps(s5, d, 8)
        ge == DivGe(s6, d)
    IN [hi |-> s6.qhi, lo |-> s6.qlo, guard |-> ge,
        sticky |-> IF ge THEN (s6.rhi # d.hi \/ s6.rlo # d.lo)
                   ELSE (s6.rhi # 0 \/ s6.rlo # 0)]

\* x / y for Numbers x >= 0 and y > 0.
DoubleDiv(x, y) ==
    IF x = DoubleZero THEN DoubleZero
    ELSE LET less == x.hi < y.hi \/ (x.hi = y.hi /\ x.lo < y.lo)
             r == IF less
                  THEN [hi |-> 2 * x.hi + ((2 * x.lo) \div Base),
                        lo |-> (2 * x.lo) % Base]
                  ELSE [hi |-> x.hi, lo |-> x.lo]
             exp == x.exp - y.exp - 52 - (IF less THEN 1 ELSE 0)
             bits == DivBits(r, y)
         IN RoundEven(bits.hi, bits.lo, exp, bits.guard, bits.sticky)

\* The five 13-bit limbs of a significand, least significant first.
Limbs(x) ==
    <<x.lo % Limb, x.lo \div Limb, x.hi % Limb, (x.hi \div Limb) % Limb,
      x.hi \div (Limb * Limb)>>

\* Limb k (0-based) of the product of two limb sequences, before carrying.
RECURSIVE Column(_, _, _, _)
Column(a, b, k, i) ==
    IF i > 5 THEN 0
    ELSE (IF k - i + 2 \in 1..5 THEN a[i] * b[k - i + 2] ELSE 0)
         + Column(a, b, k, i + 1)

\* The limbs k..8 of the product, carries propagated.
RECURSIVE ProductLimbs(_, _, _, _)
ProductLimbs(a, b, k, carry) ==
    IF k > 8 THEN <<>>
    ELSE LET c == Column(a, b, k, 1) + carry
         IN <<c % Limb>> \o ProductLimbs(a, b, k + 1, c \div Limb)

\* x * y for Numbers x >= 0 and y >= 0.
DoubleMul(x, y) ==
    IF x = DoubleZero \/ y = DoubleZero THEN DoubleZero
    ELSE LET p == ProductLimbs(Limbs(x), Limbs(y), 0, 0)
             lo54 == p[5] + p[6] * Limb
             hi54 == p[7] + p[8] * Limb + p[9] * Limb * Limb
             low == p[1] # 0 \/ p[2] # 0 \/ p[3] # 0
         IN IF hi54 < 2 * Base
            THEN RoundEven(hi54, lo54, x.exp + y.exp + 52,
                           p[4] >= Limb \div 2,
                           low \/ p[4] % (Limb \div 2) # 0)
            ELSE RoundEven(hi54 \div 2,
                           (lo54 \div 2) + (hi54 % 2) * (Base \div 2),
                           x.exp + y.exp + 53,
                           lo54 % 2 = 1,
                           low \/ p[4] # 0)

\* x <= y for Numbers x >= 0 and y >= 0.
DoubleLeq(x, y) ==
    IF x = DoubleZero THEN TRUE
    ELSE IF y = DoubleZero THEN FALSE
    ELSE \/ x.exp < y.exp
         \/ /\ x.exp = y.exp
            /\ (x.hi < y.hi \/ (x.hi = y.hi /\ x.lo <= y.lo))

----------------------------------------------------------------------------
(* buildModel                                                              *)

\* Math.round(timescaleMonths * 30), timescaleMonths a whole number.
TotalDays(timescaleMonths) == timescaleMonths * DaysPerMonth

FirstPurchaseDayZero(purchaseCadenceDays) == 0

\* the initialiser of the purchase-day loop: let day = purchaseCadenceDays
FirstPurchaseDay(purchaseCadenceDays) == purchaseCadenceDays

PurchaseLoopContinuesStrict(d, totalDays) == d < totalDays

\* the guard of the purchase-day loop: day <= totalDays
PurchaseLoopContinues(d, totalDays) == d <= totalDays

\* the body of the purchase-day loop: if (day >= 0) purchaseDays.push(day)
PushPurchaseDay(days, d) == IF d >= 0 THEN Append(days, d) ELSE days

\* purchaseDays.includes(day)
IsPurchaseDay(days, d) == \E i \in 1..Len(days) : days[i] = d

\* totalPurchase = (isPurchaseDay ? premiumValue : 0) + (day === 0 ? bootstrapFunding : 0)
TotalPurchase(cfg, days, d) ==
    LET isPurchaseDay == IsPurchaseDay(days, d)
        bootstrapPurchase == IF d = 0 THEN cfg.bootstrapFunding ELSE 0
        purchase == IF isPurchaseDay THEN cfg.premiumValue ELSE 0
    IN purchase + bootstrapPurchase

CumulativeOverwrite(cumulative, totalPurchase) ==
    IF totalPurchase > 0 THEN totalPurchase ELSE cumulative

\* if (totalPurchase > 0) cumulativePremiums += totalPurchase
NextCumulative(cumulative, totalPurchase) ==
    IF totalPurchase > 0 THEN cumulative + totalPurchase ELSE cumulative

\* if (totalPurchase > 0) rollingPremiums += totalPurchase
NextRolling(rolling, totalPurchase) ==
    IF totalPurchase > 0 THEN rolling + totalPurchase ELSE rolling

\* if (totalPurchase > 0) activePurchases.push({ day, amount: totalPurchase })
PushPurchase(queue, d, totalPurchase) ==
    IF totalPurchase > 0
    THEN Append(queue, [day |-> d, amount |-> totalPurchase])
    ELSE queue

RECURSIVE ExpireNoSubtract(_, _, _, _)
ExpireNoSubtract(queue, rolling, d, policyDurationDays) ==
    IF Len(queue) > 0 /\ d - Head(queue).day >= policyDurationDays
    THEN ExpireNoSubtract(Tail(queue), rolling, d, policyDurationDays)
    ELSE [activePurchases |-> queue, rollingPremiums |-> rolling]

RECURSIVE ExpireLate(_, _, _, _)
ExpireLate(queue, rolling, d, policyDurationDays) ==
    IF Len(queue) > 0 /\ d - Head(queue).day > policyDurationDays
    THEN ExpireLate(Tail(queue), rolling - Head(queue).amount, d, policyDurationDays)
    ELSE [activePurchases |-> queue, rollingPremiums |-> rolling]

RECURSIVE ExpireEarly(_, _, _, _)
ExpireEarly(queue, rolling, d, policyDurationDays) ==
    IF Len(queue) > 0 /\ d - Head(queue).day >= policyDurationDays - 1
    THEN ExpireEarly(Tail(queue), rolling - Head(queue).amount, d, policyDurationDays)
    ELSE [activePurchases |-> queue, rollingPremiums |-> rolling]

\* while (activePurchases.length > 0 &&
\*        day - activePurchases[0].day >= policyDurationDays)
\*   { expired = activePurchases.shift(); rollingPremiums -= expired.amount }
RECURSIVE Expire(_, _, _, _)
Expire(queue, rolling, d, policyDurationDays) ==
    IF Len(queue) > 0 /\ d - Head(queue).day >= policyDurationDays
    THEN Expire(Tail(queue), rolling - Head(queue).amount, d, policyDurationDays)
    ELSE [activePurchases |-> queue, rollingPremiums |-> rolling]

\* const premiumCost = premiumCostPct / 100
PremiumCost(premiumCostPct) == DoubleDiv(FromInt(premiumCostPct), FromInt(100))

CoverageTimes(rolling, cost) ==
    IF cost # DoubleZero THEN DoubleMul(FromInt(rolling), cost) ELSE DoubleZero

\* coverage = premiumCost > 0 ? rollingPremiums / premiumCost : 0
Coverage(rolling, cost) ==
    IF cost # DoubleZero THEN DoubleDiv(FromInt(rolling), cost) ELSE DoubleZero

LoopContinuesStrict(d, totalDays) == d < totalDays

\* the guard of the day loop: day <= totalDays
LoopContinues(d, totalDays) == d <= totalDays

----------------------------------------------------------------------------
(* monthlyData                                                             *)

\* Array.from({ length: timescaleMonths }, (_, index) => ({ ... zeros ... }))
\* months[m + 1] is the bucket of monthIndex m.
EmptyMonths(timescaleMonths) ==
    [i \in 1..timescaleMonths |->
        [monthIndex |-> i - 1,
         label |-> formatMonthLabel(i - 1),
         purchases |-> 0,
         cumulativePremiums |-> 0,
         coverage |-> DoubleZero]]

\* Math.floor(point.day / 30)
MonthIndex(d) == d \div DaysPerMonth

FoldPointSumAll(month, point) ==
    [month EXCEPT !.purchases = @ + point.purchase,
                  !.cumulativePremiums = @ + point.cumulativePremiums,
                  !.coverage = point.coverage]

\* month.purchases += point.purchase;
\* month.cumulativePremiums = point.cumulativePremiums;
\* month.coverage = point.coverage
FoldPoint(month, point) ==
    [month EXCEPT !.purchases = @ + point.purchase,
                  !.cumulativePremiums = point.cumulativePremiums,
                  !.coverage = point.coverage]

\* The body of data.forEach: a point whose bucket does not exist is skipped.
FoldInto(ms, point) ==
    LET monthIndex == MonthIndex(point.day)
    IN IF monthIndex + 1 \in DOMAIN ms
       THEN [ms EXCEPT ![monthIndex + 1] = FoldPoint(ms[monthIndex + 1], point)]
       ELSE ms

----------------------------------------------------------------------------
(* The state machine                                                       *)

totalDays == TotalDays(config.timescaleMonths)

Init ==
    /\ config \in Configs
    /\ pc = "start"
    /\ purchaseDays = <<>>
    /\ nextPurchaseDay = FirstPurchaseDay(config.purchaseCadenceDays)
    /\ premiumCost = DoubleZero
    /\ day = 0
    /\ cumulativePremiums = 0
    /\ rollingPremiums = 0
    /\ activePurchases = <<>>
    /\ data = <<>>
    /\ months = <<>>
    /\ idx = 1

\* Lines 144-148: one iteration of the purchase-day loop.
PurchaseDayStep ==
    /\ pc = "start"
    /\ PurchaseLoopContinues(nextPurchaseDay, totalDays)
    /\ purchaseDays' = PushPurchaseDay(purchaseDays, nextPurchaseDay)
    /\ nextPurchaseDay' = nextPurchaseDay + config.purchaseCadenceDays
    /\ UNCHANGED <<config, pc, premiumCost, day, cumulativePremiums,
                   rollingPremiums, activePurchases, data, months, idx>>

\* Lines 150-154: the purchase-day loop is over; the accumulators are empty
\* and premiumCost is computed.
StartDays ==
    /\ pc = "start"
    /\ ~PurchaseLoopContinues(nextPurchaseDay, totalDays)
    /\ premiumCost' = PremiumCost(config.premiumCostPct)
    /\ pc' = "loop"
    /\ UNCHANGED <<config, purchaseDays, nextPurchaseDay, day,
                   cumulativePremiums, rollingPremiums, activePurchases,
                   data, months, idx>>

\* Lines 156-183: one iteration of the day loop.
DayStep ==
    /\ pc = "loop"
    /\ LoopContinues(day, totalDays)
    /\ LET totalPurchase == TotalPurchase(config, purchaseDays, day)
           pushed == PushPurchase(activePurchases, day, totalPurchase)
           rolled == NextRolling(rollingPremiums, totalPurchase)
           kept == Expire(pushed, rolled, day, config.policyDurationDays)
           cumulative == NextCumulative(cumulativePremiums, totalPurchase)
           coverage == Coverage(kept.rollingPremiums, premiumCost)
       IN /\ cumulativePremiums' = cumulative
          /\ rollingPremiums' = kept.rollingPremiums
          /\ activePurchases' = kept.activePurchases
          /\ data' = Append(data, [day |-> day,
                                   purchase |-> totalPurchase,
                                   cumulativePremiums |-> cumulative,
                                   coverage |-> coverage])
    /\ day' = day + 1
    /\ UNCHANGED <<config, pc, purchaseDays, nextPurchaseDay, premiumCost,
                   months, idx>>

\* Line 185: the loop is over, data is returned.
Return ==
    /\ pc = "loop"
    /\ ~LoopContinues(day, totalDays)
    /\ pc' = "built"
    /\ UNCHANGED <<config, purchaseDays, nextPurchaseDay, premiumCost, day,
                   cumulativePremiums,
                   rollingPremiums, activePurchases, data, months, idx>>

\* Lines 219-225: the empty buckets.
InitMonths ==
    /\ pc = "built"
    /\ months' = EmptyMonths(config.timescaleMonths)
    /\ idx' = 1
    /\ pc' = "fold"
    /\ UNCHANGED <<config, purchaseDays, nextPurchaseDay, premiumCost, day,
                   cumulativePremiums,
                   rollingPremiums, activePurchases, data>>

\* Lines 227-234: one callback of data.forEach.
AggregatePoint ==
    /\ pc = "fold"
    /\ idx <= Len(data)
    /\ months' = FoldInto(months, data[idx])
    /\ idx' = idx + 1
    /\ UNCHANGED <<config, pc, purchaseDays, nextPurchaseDay, premiumCost, day,
                   cumulativePremiums,
                   rollingPremiums, activePurchases, data>>

\* Line 236: the buckets are returned.
ReturnMonths ==
    /\ pc = "fold"
    /\ idx > Len(data)
    /\ pc' = "done"
    /\ UNCHANGED <<config, purchaseDays, nextPurchaseDay, premiumCost, day,
                   cumulativePremiums,
                   rollingPremiums, activePurchases, data, months, idx>>

Next ==
    \/ PurchaseDayStep
    \/ StartDays
    \/ DayStep
    \/ Return
    \/ InitMonths
    \/ AggregatePoint
    \/ ReturnMonths

Spec == Init /\ [][Next]_vars

----------------------------------------------------------------------------
(* Vocabulary of the properties                                            *)

\* The point emitted for day d.
PointOf(d) == data[d + 1]

\* The day whose point a state of the day loop is judged on: the newest one.
\* Every point is the newest one in the state its day step leads to, and
\* data is only ever appended to.
Checked == IF pc = "loop" THEN {d \in {Len(data) - 1} : d >= 0} ELSE {}

\* buildModel has returned its data.
Returned == pc \in {"built", "fold", "done"}

\* Sum of the emitted purchase values of days lo..hi.
RECURSIVE SumPurchases(_, _)
SumPurchases(lo, hi) ==
    IF lo > hi THEN 0
    ELSE IF lo = hi THEN PointOf(lo).purchase
    ELSE LET mid == (lo + hi) \div 2
         IN SumPurchases(lo, mid) + SumPurchases(mid + 1, hi)

\* Sum of the purchases made on a day p <= d with d - p < policyDurationDays.
UnexpiredSum(d) ==
    LET first == d - config.policyDurationDays + 1
    IN SumPurchases(IF first > 0 THEN first ELSE 0, d)

\* The days p <= d of a purchase whose age d - p is at most policyDurationDays - 1.
UnexpiredDays(d) ==
    {p \in 0..d : PointOf(p).purchase > 0 /\ d - p <= config.policyDurationDays - 1}

\* x / premiumCost as buildModel computes it, for a whole number x.
QuotientByCost(x) == DoubleDiv(FromInt(x), premiumCost)

\* Whether the Number x lies within 1/100 of the whole number n.
WithinCent(x, n) ==
    IF n = 0 THEN x = DoubleZero
    ELSE /\ DoubleLeq(DoubleDiv(FromInt(100 * n - 1), FromInt(100)), x)
         /\ DoubleLeq(x, DoubleDiv(FromInt(100 * n + 1), FromInt(100)))

QueueDays == {activePurchases[i].day : i \in DOMAIN activePurchases}

\* Sum of the purchases field over the buckets lo..hi (1-based).
RECURSIVE SumBuckets(_, _)
SumBuckets(lo, hi) ==
    IF lo > hi THEN 0 ELSE months[lo].purchases + SumBuckets(lo + 1, hi)

ExampleConfig ==
    [timescaleMonths |-> 12, premiumValue |-> 50000, purchaseCadenceDays |-> 30,
     policyDurationDays |-> 90, bootstrapFunding |-> 0, premiumCostPct |-> 8]

----------------------------------------------------------------------------
(* Properties                                                              *)

\* C1 as stated: on every day d the emitted coverage(d) times
\* premiumCostPct/100 equals the sum of the amounts of the purchases
\* (bootstrap included) made on a day p <= d with d - p < policyDurationDays,
\* and the rolling total kept after the expiry step of day d is that sum.
C1_CoverageTimesCostIsUnexpiredSum ==
    /\ \A d \in Checked :
          DoubleMul(PointOf(d).coverage, premiumCost) = FromInt(UnexpiredSum(d))
    /\ \A d \in Checked : rollingPremiums = UnexpiredSum(d)

\* C1 amended: the rolling total kept after the expiry step of day d is
\* exactly the sum S(d) of the amounts of the purchases made on a day p <= d
\* with d - p < policyDurationDays; coverage(d) is the double-precision
\* quotient S(d) / (premiumCostPct/100), so coverage(d) times
\* premiumCostPct/100 equals S(d) within floating-point tolerance (less than
\* 0.01), not always exactly.
C1_CoverageIsUnexpiredQuotient ==
    /\ \A d \in Checked :
          /\ PointOf(d).coverage = QuotientByCost(UnexpiredSum(d))
          /\ WithinCent(DoubleMul(PointOf(d).coverage, premiumCost), UnexpiredSum(d))
    /\ \A d \in Checked : rollingPremiums = UnexpiredSum(d)

\* C1 witness: the bootstrap purchase has expired while later purchases are
\* still queued behind the head, and the quotient emitted for the day was
\* rounded (multiplying back does not give the sum).
C1_Witness ==
    /\ pc = "loop"
    /\ config.bootstrapFunding > 0
    /\ Len(activePurchases) >= 2
    /\ activePurchases[1].day > 0
    /\ rollingPremiums < cumulativePremiums
    /\ DoubleMul(data[Len(data)].coverage, premiumCost) # FromInt(rollingPremiums)

\* C2: after the step of day d the queue holds exactly the purchases of the
\* days p <= d with d - p <= policyDurationDays - 1 (the purchase of day d
\* itself included); for the example configuration coverage is 625000 at day
\* 30 and 1875000 at day 120.
C2_ActiveWindow ==
    /\ \A d \in Checked : QueueDays = UnexpiredDays(d)
    /\ config = ExampleConfig =>
          /\ Len(data) > 30 => PointOf(30).coverage = FromInt(625000)
          /\ Len(data) > 120 => PointOf(120).coverage = FromInt(1875000)

\* C2 witness: the example run just after day 120, when the purchase of day
\* 30 has reached age 90 and left the queue.
C2_Witness ==
    /\ config = ExampleConfig
    /\ Len(data) = 121
    /\ QueueDays = {60, 90, 120}

\* C3: cumulativePremiums at day d is the sum of the emitted purchase values
\* of days 0..d, and it never decreases from one day to the next.
C3_CumulativeIsRunningSum ==
    \A d \in Checked :
        /\ PointOf(d).cumulativePremiums = SumPurchases(0, d)
        /\ d > 0 => PointOf(d).cumulativePremiums >= PointOf(d - 1).cumulativePremiums

\* C3 witness: a bootstrap purchase and at least two regular purchases have
\* been accumulated.
C3_Witness ==
    /\ config.bootstrapFunding > 0
    /\ cumulativePremiums >= config.bootstrapFunding + 2 * config.premiumValue
    /\ pc = "loop"

\* C4: cumulativePremiums at day totalDays is bootstrapFunding plus
\* premiumValue times floor(totalDays / purchaseCadenceDays); day 0 carries
\* the bootstrap only.
C4_FinalCumulative ==
    Returned =>
        /\ PointOf(totalDays).cumulativePremiums =
              config.bootstrapFunding
              + config.premiumValue * (totalDays \div config.purchaseCadenceDays)
        /\ PointOf(0).purchase = config.bootstrapFunding

\* C4 witness: a returned run whose last day is itself a purchase day, with
\* a bootstrap purchase.
C4_Witness ==
    /\ pc = "built"
    /\ config.bootstrapFunding > 0
    /\ totalDays % config.purchaseCadenceDays = 0
    /\ PointOf(totalDays).purchase = config.premiumValue

\* C5: buildModel returns totalDays + 1 points and the i-th point (0-based)
\* has day = i.
C5_OnePointPerDay ==
    /\ Returned => Len(data) = totalDays + 1
    /\ \A d \in Checked : PointOf(d).day = d
    /\ pc = "built" => \A i \in DOMAIN data : data[i].day = i - 1

\* C5 witness: a returned run.
C5_Witness ==
    /\ pc = "built"
    /\ Len(data) = config.timescaleMonths * DaysPerMonth + 1
    /\ data[Len(data)].day = totalDays

\* C6 as stated: with purchaseCadenceDays > totalDays every point has
\* purchase = 0, cumulativePremiums = 0 and coverage = 0.
C6_AllZeroWithoutRegularPurchase ==
    config.purchaseCadenceDays > totalDays =>
        \A d \in Checked :
            /\ PointOf(d).purchase = 0
            /\ PointOf(d).cumulativePremiums = 0
            /\ PointOf(d).coverage = DoubleZero

\* C6 amended: with purchaseCadenceDays > totalDays the only purchase is the
\* bootstrap: purchase is bootstrapFunding on day 0 and 0 afterwards,
\* cumulativePremiums is bootstrapFunding on every day, and coverage is
\* bootstrapFunding / (premiumCostPct/100), as a double-precision quotient,
\* on the days before policyDurationDays and 0 from then on (all zero when
\* bootstrapFunding = 0).
C6_OnlyBootstrapWithoutRegularPurchase ==
    config.purchaseCadenceDays > totalDays =>
        \A d \in Checked :
            /\ PointOf(d).purchase = (IF d = 0 THEN config.bootstrapFunding ELSE 0)
            /\ PointOf(d).cumulativePremiums = config.bootstrapFunding
            /\ PointOf(d).coverage =
                  (IF d < config.policyDurationDays
                   THEN QuotientByCost(config.bootstrapFunding) ELSE DoubleZero)

\* C6 witness: a returned run without regular purchases whose bootstrap
\* purchase was made and has expired.
C6_Witness ==
    /\ pc = "built"
    /\ config.purchaseCadenceDays > totalDays
    /\ purchaseDays = <<>>
    /\ config.bootstrapFunding > 0
    /\ cumulativePremiums = config.bootstrapFunding
    /\ activePurchases = <<>>

\* C7: if policyDurationDays >= totalDays + 1 no entry ever leaves the queue
\* (it holds one entry per day with a purchase), and coverage at day
\* totalDays is cumulativePremiums at day totalDays over premiumCostPct/100
\* (the double-precision quotient).
C7_NothingExpires ==
    config.policyDurationDays >= totalDays + 1 =>
        /\ Len(activePurchases) =
              Cardinality({i \in DOMAIN data : data[i].purchase > 0})
        /\ rollingPremiums = cumulativePremiums
        /\ Returned =>
              PointOf(totalDays).coverage =
                  QuotientByCost(PointOf(totalDays).cumulativePremiums)

\* C7 witness: a returned run with a bootstrap purchase of age totalDays and
\* regular purchases, all still queued.
C7_Witness ==
    /\ pc = "built"
    /\ config.policyDurationDays >= totalDays + 1
    /\ config.bootstrapFunding > 0
    /\ Len(activePurchases) >= 2
    /\ activePurchases[1].day = 0

\* C8: there are timescaleMonths buckets; bucket m has purchases = the sum of
\* the daily purchase values of days 30m..30m+29, and cumulativePremiums and
\* coverage = the daily values of day 30m+29.
C8_MonthlyBuckets ==
    pc = "done" =>
        /\ Len(months) = config.timescaleMonths
        /\ \A m \in 0..(config.timescaleMonths - 1) :
              LET first == DaysPerMonth * m
                  last == DaysPerMonth * m + (DaysPerMonth - 1)
              IN /\ months[m + 1].purchases = SumPurchases(first, last)
                 /\ months[m + 1].cumulativePremiums = PointOf(last).cumulativePremiums
                 /\ months[m + 1].coverage = PointOf(last).coverage

\* C8 witness: finished buckets, one of which received several purchases and
\* whose coverage changed within the bucket.
C8_Witness ==
    /\ pc = "done"
    /\ \E m \in 1..Len(months) :
          /\ months[m].purchases >= 2 * config.premiumValue
          /\ months[m].coverage # PointOf(DaysPerMonth * (m - 1)).coverage
          /\ months[m].cumulativePremiums > months[m].purchases

\* C9: every daily point, the one of day totalDays included, is folded into a
\* bucket: the purchases of all buckets add up to cumulativePremiums at day
\* totalDays, and the last bucket's cumulativePremiums is the final daily one.
C9_EveryDayBucketed ==
    pc = "done" =>
        /\ SumBuckets(1, Len(months)) = PointOf(totalDays).cumulativePremiums
        /\ months[Len(months)].cumulativePremiums =
              PointOf(totalDays).cumulativePremiums

\* C10: with policyDurationDays >= purchaseCadenceDays, on every day d >=
\* purchaseCadenceDays coverage is at least premiumValue / (premiumCostPct/100)
\* (the double-precision quotient) and the queue is not empty; with policyDurationDays = purchaseCadenceDays
\* and bootstrapFunding = 0 coverage is exactly that value.
C10_NoCoverageGap ==
    config.policyDurationDays >= config.purchaseCadenceDays =>
        /\ \A d \in Checked :
              d >= config.purchaseCadenceDays =>
                 /\ DoubleLeq(QuotientByCost(config.premiumValue),
                              PointOf(d).coverage)
                 /\ (config.policyDurationDays = config.purchaseCadenceDays
                     /\ config.bootstrapFunding = 0) =>
                       PointOf(d).coverage = QuotientByCost(config.premiumValue)
        /\ Len(data) - 1 >= config.purchaseCadenceDays => Len(activePurchases) > 0

\* C10 witness: duration equal to cadence, on a purchase day after the first:
\* the new purchase is queued and the previous one has just expired.
C10_Witness ==
    /\ pc = "loop"
    /\ config.policyDurationDays = config.purchaseCadenceDays
    /\ config.purchaseCadenceDays > 1
    /\ config.bootstrapFunding = 0
    /\ Len(data) - 1 = 2 * config.purchaseCadenceDays
    /\ Len(activePurchases) = 1
    /\ activePurchases[1].day = 2 * config.purchaseCadenceDays

====
